---- MODULE Spec2Model ----
(***************************************************************************)
(* The mini app controller of src/miniapp/app.js as a state machine: the   *)
(* bootstrap pipeline (config, account, payment methods), the section      *)
(* renderers, and the click handler of each payment method's pay button.   *)
(*                                                                         *)
(* Every await of the source is a point where the flow is suspended: the   *)
(* code that runs between two awaits is one action.  A network call is     *)
(* settled by the environment with one of the outcomes of fetch().         *)
(*                                                                         *)
(* Optional values are sequences: <<>> is absent, <<x>> is the value x.    *)
(* Text that the source builds by concatenation is a sequence of pieces.   *)
(* The lists of the page hold no items until a renderer makes them.  The   *)
(* theme toggle (setTheme) touches only the data-theme attribute and is    *)
(* left out.                                                               *)
(***************************************************************************)
EXTENDS Integers, Sequences, FiniteSets, TLC

VARIABLES
  env,        \* what the host gives: tg.initData, query_id, ?initData=, user agent, language
  pc,         \* where bootstrap() is: boot, config, subscription, methods, done, rejected
  appState,   \* the appState object
  selectors,  \* the elements the selectors object names, and what the code sets on them
  inflight,   \* per payment wrapper: the payment-create payloads sent and not yet settled
  calls,      \* history: requests issued so far, per endpoint
  bootLog,    \* history: the steps of bootstrap(), in order
  atFailure,  \* history: the sections as they were when bootstrap's catch block was entered
  afterAccount, \* history: the sections as they were when loadSubscription() returned
  pay,        \* history of the payment workflow: counters, last payload, last alert
  probe       \* history: the last direct call of a helper: which, on what, how often, its result

vars == <<env, pc, appState, selectors, inflight, calls, bootLog, atFailure, afterAccount, pay,
          probe>>

(***************************************************************************)
(* Bounds of the model.                                                    *)
(***************************************************************************)
MaxClicks == 2

(***************************************************************************)
(* Values.                                                                 *)
(***************************************************************************)
Absent == <<>>
Markup == "markup"      \* what the page's markup gives, before any script sets it
Hidden == "hidden"      \* element.hidden = true
Shown == "shown"        \* element.hidden = false
JsNull == "<null>"
JsUndefined == "<undefined>"
Dash == "-"             \* the em-dash placeholder of formatDate and formatAmount

Just(x) == <<x>>
Truthy(s) == s # "" /\ s # JsNull /\ s # JsUndefined
OrElse(s, d) == IF Truthy(s) THEN s ELSE d

RECURSIVE Dedupe(_)
Dedupe(s) ==
  IF s = <<>> THEN <<>>
  ELSE LET rest == Dedupe(SubSeq(s, 1, Len(s) - 1))
           last == s[Len(s)]
       IN IF \E i \in 1..Len(rest) : rest[i] = last THEN rest ELSE Append(rest, last)

\* A slice that keeps the whole list.
Take_Whole(s, n) == s

Take(s, n) == SubSeq(s, 1, IF Len(s) < n THEN Len(s) ELSE n)

\* The first position of s whose element satisfies isNull, or Len(s) + 1.
FirstNull(s) ==
  IF \E i \in 1..Len(s) : s[i].isNull
  THEN CHOOSE i \in 1..Len(s) : s[i].isNull /\ \A j \in 1..(i - 1) : ~s[j].isNull
  ELSE Len(s) + 1

(***************************************************************************)
(* readInitData: the host's token when the host has one, else the query    *)
(* parameter.                                                              *)
(***************************************************************************)
readInitData(e) ==
  LET fromTg == IF e.tgInitData # "" \/ e.tgQueryId # "" THEN e.tgInitData ELSE ""
      fromQuery == e.queryInitData
  IN IF fromTg # "" THEN fromTg ELSE fromQuery

(***************************************************************************)
(* detectPlatform: the user agent is the set of the keywords its lower     *)
(* case form contains.                                                     *)
(***************************************************************************)
\* A detection that tests for a TV before the other patterns.
detectPlatform_TvFirst(ua) ==
  IF "tv" \in ua THEN "androidTV"
  ELSE IF ua \cap {"iphone", "ipad", "ipod"} # {} THEN "ios"
  ELSE IF "android" \in ua THEN "android"
  ELSE IF "windows" \in ua THEN "windows"
  ELSE IF ua \cap {"macintosh", "mac os x"} # {} THEN "mac"
  ELSE IF "linux" \in ua THEN "linux"
  ELSE "generic"

detectPlatform(ua) ==
  IF ua \cap {"iphone", "ipad", "ipod"} # {} THEN "ios"
  ELSE IF "android" \in ua THEN "android"
  ELSE IF "windows" \in ua THEN "windows"
  ELSE IF ua \cap {"macintosh", "mac os x"} # {} THEN "mac"
  ELSE IF "linux" \in ua THEN "linux"
  ELSE IF "tv" \in ua THEN "androidTV"
  ELSE "generic"

(***************************************************************************)
(* fetchJson: a POST that throws on a network error, on a non-2xx status   *)
(* (the body text, or the status line when the body is empty, is the       *)
(* message) and on a body that is not JSON; else the parsed body.          *)
(***************************************************************************)
NullBody == [kind |-> "null"]

\* A fetchJson without the response.ok test: the error body is parsed as the answer.
fetchJson_NoStatusCheck(outcome) ==
  CASE outcome.kind = "netfail" -> [threw |-> TRUE, message |-> "Failed to fetch", data |-> NullBody]
    [] outcome.kind = "http" -> [threw |-> TRUE, message |-> "SyntaxError", data |-> NullBody]
    [] outcome.kind = "badjson" -> [threw |-> TRUE, message |-> "SyntaxError", data |-> NullBody]
    [] OTHER -> [threw |-> FALSE, message |-> "", data |-> outcome.data]

fetchJson(outcome) ==
  CASE outcome.kind = "netfail" -> [threw |-> TRUE, message |-> "Failed to fetch", data |-> NullBody]
    [] outcome.kind = "http" ->
         [threw |-> TRUE,
          message |-> IF outcome.text # "" THEN outcome.text ELSE "Request failed (status)",
          data |-> NullBody]
    [] outcome.kind = "badjson" -> [threw |-> TRUE, message |-> "SyntaxError", data |-> NullBody]
    [] OTHER -> [threw |-> FALSE, message |-> "", data |-> outcome.data]

(***************************************************************************)
(* formatDate, formatAmount.  An amount of k kopeks is shown with its      *)
(* rubles and its two digits of kopeks.                                    *)
(***************************************************************************)
formatDate(value) == IF ~Truthy(value) THEN <<Dash>> ELSE <<"date", value>>

formatAmount(kopeks, currency) ==
  IF kopeks = Absent THEN [placeholder |-> Dash, rubles |-> 0, hundredths |-> 0, currency |-> ""]
  ELSE [placeholder |-> "", rubles |-> kopeks[1] \div 100, hundredths |-> kopeks[1] % 100,
        currency |-> currency]

(***************************************************************************)
(* resolveI18n.  An entity is null, a string or a mapping (the sequence of *)
(* its entries, in the order Object.values gives them).                    *)
(***************************************************************************)
Lookup(entries, key) ==
  IF \E i \in 1..Len(entries) : entries[i][1] = key
  THEN entries[CHOOSE i \in 1..Len(entries) : entries[i][1] = key][2]
  ELSE JsUndefined

activeLanguage(e) ==
  IF e.tgLanguage # "" THEN e.tgLanguage
  ELSE IF e.navLanguage # "" THEN e.navLanguage
  ELSE "en"

resolveI18n(entity, lang) ==
  IF entity.kind = "null" THEN JsNull
  ELSE IF entity.kind = "string" THEN (IF entity.s = "" THEN JsNull ELSE entity.s)
  ELSE IF Truthy(Lookup(entity.entries, lang)) THEN Lookup(entity.entries, lang)
  ELSE IF Truthy(Lookup(entity.entries, "en")) THEN Lookup(entity.entries, "en")
  ELSE IF entity.entries = <<>> THEN JsUndefined
  ELSE entity.entries[1][2]

(***************************************************************************)
(* The section renderers.  Each takes the selectors and its data and gives *)
(* the selectors as the renderer leaves them, and whether it threw (a      *)
(* TypeError on a null where an object is read).  A list-valued field of a *)
(* response is absent, a JSON array, or a JSON object that is no array.    *)
(***************************************************************************)
Ok(sel) == [sel |-> sel, threw |-> FALSE]
Threw(sel) == [sel |-> sel, threw |-> TRUE]

\* classList.toggle(name, force): with force undefined the class is flipped.
toggleClass(classList, name, force) ==
  IF force = "true" THEN classList \cup {name}
  ELSE IF force = "false" THEN classList \ {name}
  ELSE IF name \in classList THEN classList \ {name}
  ELSE classList \cup {name}

ToForce(b) == IF b THEN "true" ELSE "false"

renderStatusCard(sel, subscription) ==
  IF subscription.kind = "null" THEN Threw(sel)
  ELSE
    LET user == subscription.user
        has == user.present
        U(v) == IF has THEN v ELSE JsUndefined
        metaParts ==
          (IF Truthy(subscription.subscription_missing_reason)
             THEN <<<<subscription.subscription_missing_reason>>>> ELSE <<>>)
          \o (IF Truthy(U(user.expires_at))
                THEN <<<<"Expires">> \o formatDate(user.expires_at)>> ELSE <<>>)
        badge1 == toggleClass(sel.statusBadge.classList, "badge--success",
                              ToForce(has /\ user.has_active_subscription))
        badge2 == toggleClass(badge1, "badge--danger", U(user.subscription_missing))
        highlights ==
          << <<"Balance", formatAmount(subscription.balance_kopeks,
                                       OrElse(subscription.balance_currency, "RUB"))>>,
             <<"Traffic", OrElse(U(user.traffic_limit_label), "Unlimited")>>,
             <<"Devices", IF subscription.connected_devices_count = Absent
                            THEN 0 ELSE subscription.connected_devices_count[1]>>,
             <<"Status", OrElse(U(user.status_label), OrElse(U(user.status), Dash))>> >>
    IN Ok([sel EXCEPT
             !.subscriptionTitle = OrElse(U(user.display_name), "Subscription"),
             !.statusBadge = [textContent |-> OrElse(U(user.subscription_status), "Unknown"),
                              classList |-> badge2],
             !.subscriptionMeta = IF metaParts = <<>>
                                    THEN <<<<"Active subscription overview.">>>>
                                    ELSE metaParts,
             !.highlightGrid = highlights])

\* The links of a snapshot, each distinct value once, in insertion order.
actionLinks(subscription) ==
  Dedupe(
    (IF Truthy(subscription.subscription_url) THEN <<subscription.subscription_url>> ELSE <<>>)
    \o (IF Truthy(subscription.happ_link) THEN <<subscription.happ_link>> ELSE <<>>)
    \o (IF Truthy(subscription.happ_crypto_link) THEN <<subscription.happ_crypto_link>> ELSE <<>>)
    \o subscription.links.items)

renderActions(sel, subscription) ==
  IF subscription.links.kind = "object" THEN Threw(sel)     \* .forEach is not a function
  ELSE
    LET links == actionLinks(subscription)
    IN IF links = <<>>
         THEN Ok([sel EXCEPT !.actionList = <<>>, !.actionsCard = Hidden])
         ELSE Ok([sel EXCEPT !.actionList = links, !.actionsCard = Shown])

deviceLabel(device) ==
  LET parts == (IF Truthy(device.platform) THEN <<device.platform>> ELSE <<>>)
               \o (IF Truthy(device.device_model) THEN <<device.device_model>> ELSE <<>>)
               \o (IF Truthy(device.app_version) THEN <<device.app_version>> ELSE <<>>)
  IN IF parts = <<>> THEN <<"Device">> ELSE parts

renderDevices(sel, subscription) ==
  LET devices == subscription.connected_devices.items
      n == FirstNull(devices)
      cleared == [sel EXCEPT !.deviceList = <<>>]
  IN IF subscription.connected_devices.kind # "array" \/ devices = <<>>
       THEN Ok([cleared EXCEPT !.devicesCard = Hidden])       \* no length: nothing to show
       ELSE [sel |-> [cleared EXCEPT
                        !.devicesCard = Shown,
                        !.deviceList = [i \in 1..(n - 1) |-> deviceLabel(devices[i])]],
             threw |-> n <= Len(devices)]

TransactionCap == 5

transactionItem(tx) ==
  [title |-> OrElse(tx.description, tx.type),
   date |-> formatDate(tx.created_at),
   amount |-> formatAmount(tx.amount_kopeks, "RUB"),
   completed |-> tx.is_completed]

renderTransactions(sel, subscription) ==
  IF subscription.transactions.kind = "object" THEN Threw(sel)  \* .slice is not a function
  ELSE
    LET transactions == Take(subscription.transactions.items, TransactionCap)
        n == FirstNull(transactions)
        cleared == [sel EXCEPT !.transactionList = <<>>]
    IN IF transactions = <<>>
         THEN Ok([cleared EXCEPT !.transactionsCard = Hidden])
         ELSE [sel |-> [cleared EXCEPT
                          !.transactionsCard = Shown,
                          !.transactionList =
                             [i \in 1..(n - 1) |-> transactionItem(transactions[i])]],
               threw |-> n <= Len(transactions)]

\* config?.platforms?.[platform]: the guides of a platform, absent when there are none.
platformSteps(config, platform) ==
  IF config = Absent THEN <<>>
  ELSE LET entries == config[1].platforms
       IN IF \E i \in 1..Len(entries) : entries[i][1] = platform
            THEN entries[CHOOSE i \in 1..Len(entries) : entries[i][1] = platform][2]
            ELSE <<>>

renderPlatformGuide(sel, config, subscription, platform, lang) ==
  LET steps == platformSteps(config, platform)
      cleared == [sel EXCEPT !.platformBlock = <<>>]
  IN IF steps = <<>> THEN Ok([cleared EXCEPT !.platformCard = Hidden])
     ELSE IF steps[1].isNull THEN Threw([cleared EXCEPT !.platformCard = Shown])
     ELSE
       LET client == steps[1]
           text(entity) == OrElse(resolveI18n(entity, lang), "")
           blocks ==
             << [title |-> "Install the app", description |-> text(client.installation),
                 buttons |-> [i \in 1..Len(client.buttons) |->
                                [href |-> client.buttons[i].buttonLink,
                                 textContent |->
                                   OrElse(resolveI18n(client.buttons[i].buttonText, lang), "Open")]]],
                [title |-> "Add subscription", description |-> text(client.addSubscription),
                 buttons |-> <<>>],
                [title |-> "Connect & browse", description |-> text(client.connectAndUse),
                 buttons |-> <<>>] >>
           hint == IF Truthy(subscription.subscription_url)
                     THEN <<[title |-> "Need the URL?",
                             description |-> subscription.subscription_url,
                             buttons |-> <<>>]>>
                     ELSE <<>>
       IN Ok([cleared EXCEPT !.platformCard = Shown, !.platformBlock = blocks \o hint])

(***************************************************************************)
(* renderPayments: one wrapper per method, with the pay button, the amount *)
(* field when the method requires an amount and the option select when it  *)
(* has options.  Amounts are kept in hundredths of a ruble, so the number  *)
(* min_amount_kopeks / 100 of the source is kept as min_amount_kopeks, and *)
(* the number 1 as 100.  A number field's value is empty (<<>>) or a       *)
(* number (<<k>>).                                                         *)
(***************************************************************************)
KopeksPerRuble == 100
DefaultMinRubles == 1
DefaultValueRubles == 100

Rubles(n) == n * KopeksPerRuble

\* input.min = method.min_amount_kopeks ? method.min_amount_kopeks / 100 : 1
inputMin(method) ==
  IF method.min_amount_kopeks # Absent /\ method.min_amount_kopeks[1] # 0
    THEN Just(method.min_amount_kopeks[1])
    ELSE Just(Rubles(DefaultMinRubles))

\* A field that starts at the fallback value whatever the minimum is.
inputValue_AlwaysFallback(method) == Just(Rubles(DefaultValueRubles))

\* input.value = input.min || 100
inputValue(method) ==
  IF inputMin(method) # Absent THEN inputMin(method) ELSE Just(Rubles(DefaultValueRubles))

paymentWrapper(method) ==
  [method |-> method,
   payButton |-> [disabled |-> FALSE, textContent |-> "Pay"],
   amount |-> IF method.requires_amount
                THEN [exists |-> TRUE, min |-> inputMin(method), value |-> inputValue(method)]
                ELSE [exists |-> FALSE, min |-> Absent, value |-> Absent],
   option |-> IF method.options # <<>>
                THEN [exists |-> TRUE, value |-> method.options[1].id]
                ELSE [exists |-> FALSE, value |-> ""]]

\* A renderer that shows the panel when there are no methods.
renderPayments_ShowsEmptyPanel(sel, methods) ==
  LET n == FirstNull(methods.items)
      cleared == [sel EXCEPT !.paymentMethods = <<>>]
  IN IF methods.kind # "array" \/ methods.items = <<>>
       THEN Ok([cleared EXCEPT !.paymentsCard = Shown])
       ELSE [sel |-> [cleared EXCEPT
                        !.paymentsCard = Shown,
                        !.paymentMethods = [i \in 1..(n - 1) |-> paymentWrapper(methods.items[i])]],
             threw |-> n <= Len(methods.items)]

renderPayments(sel, methods) ==
  LET n == FirstNull(methods.items)
      cleared == [sel EXCEPT !.paymentMethods = <<>>]
  IN IF methods.kind # "array" \/ methods.items = <<>>
       THEN Ok([cleared EXCEPT !.paymentsCard = Hidden])
       ELSE [sel |-> [cleared EXCEPT
                        !.paymentsCard = Shown,
                        !.paymentMethods = [i \in 1..(n - 1) |-> paymentWrapper(methods.items[i])]],
             threw |-> n <= Len(methods.items)]

(***************************************************************************)
(* The pay button's click handler, up to its await: the button is disabled *)
(* and relabelled, and the payload is built from the fields.               *)
(***************************************************************************)
\* A handler that relabels the button and leaves it enabled.
clickStart_NotDisabled(wrapper) ==
  [wrapper EXCEPT !.payButton = [disabled |-> FALSE, textContent |-> "Opening..."]]

clickStart(wrapper) ==
  [wrapper EXCEPT !.payButton = [disabled |-> TRUE, textContent |-> "Opening..."]]

\* A handler that reads an amount whether the method has an amount field or not.
amountRubles_NoFieldTest(wrapper) ==
  IF wrapper.amount.value = <<>> THEN Just(0) ELSE wrapper.amount.value

\* Number(amountField.value || 0)
amountRubles(wrapper) ==
  IF ~wrapper.amount.exists THEN Absent
  ELSE IF wrapper.amount.value = <<>> THEN Just(0)
  ELSE wrapper.amount.value

\* A handler that sends the selected option with the first attempt of a button only.
createPayload_OptionOnFirstAttempt(initData, wrapper) ==
  [initData |-> initData,
   method |-> wrapper.method.id,
   amountRubles |-> amountRubles(wrapper),
   option |-> IF wrapper.option.exists /\ wrapper.payButton.textContent = "Pay"
                THEN Just(wrapper.option.value) ELSE Absent]

createPayload(initData, wrapper) ==
  [initData |-> initData,
   method |-> wrapper.method.id,
   amountRubles |-> amountRubles(wrapper),
   option |-> IF wrapper.option.exists THEN Just(wrapper.option.value) ELSE Absent]

(***************************************************************************)
(* The click handler after its await: what the response makes of the       *)
(* button, whether a URL is opened, and the alert shown.                   *)
(***************************************************************************)
createResult(outcome) ==
  LET r == fetchJson(outcome)
  IN IF r.threw THEN [failed |-> TRUE, message |-> r.message, url |-> ""]
     ELSE IF r.data.kind = "null"
       THEN [failed |-> TRUE, message |-> "TypeError", url |-> ""]
     ELSE [failed |-> FALSE, message |-> "",
           url |-> IF Truthy(r.data.payment_url) THEN r.data.payment_url ELSE ""]

settledLabel(result) == IF result.failed THEN "Try again" ELSE "Open again"

\* A handler that re-enables the button in its try block and not in a finally block.
clickSettle_NoFinally(wrapper, result) ==
  [wrapper EXCEPT !.payButton = [disabled |-> result.failed, textContent |-> settledLabel(result)]]

clickSettle(wrapper, result) ==
  [wrapper EXCEPT !.payButton = [disabled |-> FALSE, textContent |-> settledLabel(result)]]

(***************************************************************************)
(* What the environment may give: the host's init data, the page URL, the  *)
(* browser, and the bodies the three endpoints and the config document     *)
(* may answer with.                                                        *)
(***************************************************************************)
TokenSources ==
  { [tgInitData |-> "", tgQueryId |-> "", queryInitData |-> ""],
    [tgInitData |-> "tg-token", tgQueryId |-> "q1", queryInitData |-> "url-token"],
    [tgInitData |-> "", tgQueryId |-> "", queryInitData |-> "url-token"] }

Browsers ==
  { [userAgent |-> {"android", "linux"}, tgLanguage |-> "ru", navLanguage |-> "en"],
    [userAgent |-> {"x11"}, tgLanguage |-> "", navLanguage |-> "de"] }

\* The host that gives the init data gives the user's language too (tg.initDataUnsafe.user).
HostedOrPlain(t, b) == (t.tgInitData # "") <=> (b.tgLanguage # "")

Envs ==
  { [tgInitData |-> p[1].tgInitData, tgQueryId |-> p[1].tgQueryId,
     queryInitData |-> p[1].queryInitData,
     userAgent |-> p[2].userAgent, tgLanguage |-> p[2].tgLanguage,
     navLanguage |-> p[2].navLanguage] :
    p \in { q \in TokenSources \X Browsers : HostedOrPlain(q[1], q[2]) } }

MarkupBadgeClasses == { {}, {"badge--danger"} }

Str(s) == [kind |-> "string", s |-> s, entries |-> <<>>]
Map(entries) == [kind |-> "map", s |-> "", entries |-> entries]
NullEntity == [kind |-> "null", s |-> "", entries |-> <<>>]

NullItem == [isNull |-> TRUE]

GuideClient ==
  [isNull |-> FALSE,
   installation |-> Map(<< <<"en", "Install">>, <<"ru", "Ustanovite">> >>),
   buttons |-> << [buttonLink |-> "https://store", buttonText |-> Map(<< <<"fr", "Ouvrir">> >>)] >>,
   addSubscription |-> Str("Add it"),
   connectAndUse |-> NullEntity]

EmptyConfig == [branding |-> Absent, platforms |-> <<>>]

ConfigBodies ==
  { [kind |-> "unparsable", config |-> Absent],
    [kind |-> "object",
     config |-> Just([branding |-> Just([name |-> "Acme VPN", supportUrl |-> "", description |-> "",
                                         logoUrl |-> "logo.png"]),
                      platforms |-> << <<"android", <<GuideClient>> >> >>])],
    [kind |-> "object",
     config |-> Just([branding |-> Absent,
                      platforms |-> << <<"android", <<NullItem>> >> >>])] }

ConfigOutcomes == {[kind |-> "netfail"]} \cup {[kind |-> "body", body |-> b] : b \in ConfigBodies}

NoUser ==
  [present |-> FALSE, display_name |-> "", subscription_status |-> "",
   has_active_subscription |-> FALSE, subscription_missing |-> JsUndefined, expires_at |-> "",
   traffic_limit_label |-> "", status_label |-> "", status |-> ""]

ActiveUser ==
  [present |-> TRUE, display_name |-> "Ann", subscription_status |-> "Active",
   has_active_subscription |-> TRUE, subscription_missing |-> "false", expires_at |-> "2027-01-01",
   traffic_limit_label |-> "", status_label |-> "", status |-> "active"]

NoList == [kind |-> "absent", items |-> <<>>]
Array(items) == [kind |-> "array", items |-> items]
NotArray == [kind |-> "object", items |-> <<>>]

Device(model) == [isNull |-> FALSE, platform |-> "android", device_model |-> model, app_version |-> ""]

Tx(n) ==
  [isNull |-> FALSE, description |-> "", type |-> "deposit", created_at |-> "2026-01-01",
   amount_kopeks |-> Just(n * 1000), is_completed |-> TRUE]

BareSnapshot ==
  [kind |-> "object", user |-> NoUser, balance_kopeks |-> Absent, balance_currency |-> "",
   subscription_missing_reason |-> "", subscription_url |-> "", happ_link |-> "",
   happ_crypto_link |-> "", links |-> NoList, connected_devices |-> NoList,
   connected_devices_count |-> Absent, transactions |-> NoList]

FullSnapshot ==
  [BareSnapshot EXCEPT
     !.user = ActiveUser, !.balance_kopeks = Just(123456),
     !.subscription_url = "https://sub", !.happ_link = "happ://sub",
     !.links = Array(<<"https://sub", "https://extra">>),
     !.connected_devices = Array(<<Device("Pixel"), Device("")>>),
     !.connected_devices_count = Just(2),
     !.transactions = Array(<<Tx(1), Tx(2), Tx(3), Tx(4), Tx(5), Tx(6)>>)]

SubscriptionBodies ==
  { NullBody,
    BareSnapshot,
    FullSnapshot,
    [FullSnapshot EXCEPT !.links = NotArray],
    [FullSnapshot EXCEPT !.connected_devices = Array(<<Device("Pixel"), NullItem>>)],
    [FullSnapshot EXCEPT !.transactions = Array(<<Tx(1), NullItem, Tx(3)>>)] }

HttpErrors == {[kind |-> "http", text |-> "denied"], [kind |-> "http", text |-> ""]}

FetchFailures == {[kind |-> "netfail"], [kind |-> "badjson"]} \cup HttpErrors

SubscriptionOutcomes == FetchFailures \cup {[kind |-> "json", data |-> b] : b \in SubscriptionBodies}

Option(id) == [id |-> id, title |-> ""]

Method(id, requires, min, options) ==
  [isNull |-> FALSE, id |-> id, requires_amount |-> requires, min_amount_kopeks |-> min,
   options |-> options]

CardMethod == Method("card", TRUE, Just(5000), <<Option("o1"), Option("o2")>>)
StarsMethod == Method("stars", FALSE, Absent, <<>>)
CryptoMethod == Method("crypto", TRUE, Absent, <<>>)

MethodsBodies ==
  { NullBody,
    [kind |-> "object", methods |-> NoList],
    [kind |-> "object", methods |-> Array(<<CardMethod, StarsMethod>>)],
    [kind |-> "object", methods |-> Array(<<CryptoMethod>>)],
    [kind |-> "object", methods |-> Array(<<StarsMethod, NullItem>>)] }

MethodsOutcomes == FetchFailures \cup {[kind |-> "json", data |-> b] : b \in MethodsBodies}

CreateBodies ==
  { NullBody,
    [kind |-> "object", payment_url |-> "https://pay"],
    [kind |-> "object", payment_url |-> ""] }

CreateOutcomes == FetchFailures \cup {[kind |-> "json", data |-> b] : b \in CreateBodies}

\* What the user may type into an amount field: nothing (the field is emptied) or a number.
AmountInputs == {<<>>, <<25000>>}

(***************************************************************************)
(* The loaders and bootstrap's two endings.                                *)
(***************************************************************************)
\* appState.config = data.config || {}, data being the parsed body or {}.
parsedConfig(body) ==
  IF body.kind = "object" /\ body.config # Absent THEN body.config[1] ELSE EmptyConfig

loadConfig(sel, body) ==
  LET branding == parsedConfig(body).branding
      B(v, d) == IF branding # Absent /\ Truthy(v) THEN v ELSE d
      b == IF branding # Absent THEN branding[1]
           ELSE [name |-> "", supportUrl |-> "", description |-> "", logoUrl |-> ""]
  IN [sel EXCEPT
        !.supportLink = B(b.supportUrl, "https://t.me"),
        !.brandTitle = B(b.name, "Bedolaga VPN"),
        !.supportCopy = B(b.description, sel.supportCopy),
        !.brandLogo = B(b.logoUrl, sel.brandLogo)]

\* The five renderers of loadSubscription, in order, up to the first that throws.
renderAccount(sel, data, config, platform, lang) ==
  LET r1 == renderStatusCard(sel, data)
      r2 == IF r1.threw THEN r1 ELSE renderActions(r1.sel, data)
      r3 == IF r2.threw THEN r2 ELSE renderDevices(r2.sel, data)
      r4 == IF r3.threw THEN r3 ELSE renderTransactions(r3.sel, data)
      r5 == IF r4.threw THEN r4 ELSE renderPlatformGuide(r4.sel, config, data, platform, lang)
  IN [sel |-> r5.sel, threw |-> r5.threw,
      log |-> <<"render:status">>
              \o (IF r1.threw THEN <<>> ELSE <<"render:actions">>)
              \o (IF r2.threw THEN <<>> ELSE <<"render:devices">>)
              \o (IF r3.threw THEN <<>> ELSE <<"render:transactions">>)
              \o (IF r4.threw THEN <<>> ELSE <<"render:platform">>)]

FailedToLoad == <<<<"Failed to load data. Pull to refresh or try again later.">>>>

\* A catch block that also takes the rendered sections down.
bootstrapCatch_ClearsSections(sel) ==
  [sel EXCEPT
     !.subscriptionMeta = FailedToLoad,
     !.statusBadge = [textContent |-> "Error",
                      classList |-> sel.statusBadge.classList \cup {"badge--danger"}],
     !.deviceList = <<>>,
     !.devicesCard = Hidden]

\* bootstrap's catch block.
bootstrapCatch(sel) ==
  [sel EXCEPT
     !.subscriptionMeta = FailedToLoad,
     !.statusBadge = [textContent |-> "Error",
                      classList |-> sel.statusBadge.classList \cup {"badge--danger"}]]

\* A loadPayments that lets its failure reach the status area.
paymentsUnavailable_ShowsError(sel) == bootstrapCatch([sel EXCEPT !.paymentsCard = Hidden])

\* loadPayments' catch block.
paymentsUnavailable(sel) == [sel EXCEPT !.paymentsCard = Hidden]

showInitError(sel) ==
  [sel EXCEPT
     !.subscriptionTitle = "Open in Telegram",
     !.subscriptionMeta = <<<<"We could not detect Telegram init data.">>>>,
     !.statusBadge = [textContent |-> "Not authorized",
                      classList |-> sel.statusBadge.classList \cup {"badge--danger"}],
     !.actionsCard = Hidden,
     !.paymentsCard = Hidden,
     !.devicesCard = Hidden,
     !.transactionsCard = Hidden,
     !.platformCard = Hidden]

\* A bootstrap without the token check.
tokenMissing_NeverTested(initData) == FALSE

\* if (!appState.initData)
tokenMissing(initData) == initData = ""

\* A bootstrap that goes on to loadPayments whatever loadSubscription did.
afterSubscription_AlwaysLoadsPayments(threw) == "loadPayments"

\* try { await loadSubscription(); await loadPayments(); } catch: what follows loadSubscription.
afterSubscription(threw) == IF threw THEN "catch" ELSE "loadPayments"

(***************************************************************************)
(* The initial state: the page as loaded, before bootstrap() runs.         *)
(***************************************************************************)
Endpoints == {"config", "subscription", "methods", "create"}

NoProbe == [fn |-> "", input |-> Absent, times |-> 0, rounds |-> 0, result |-> Absent]

PageLoaded ==
  /\ pc = "boot"
  /\ appState = [initData |-> "", subscription |-> NullBody, config |-> Absent,
                 paymentMethods |-> Array(<<>>), platform |-> "generic"]
  /\ \E classes \in MarkupBadgeClasses :
       selectors =
         [brandLogo |-> Markup, brandTitle |-> Markup, supportLink |-> Markup,
          supportCopy |-> Markup,
          statusBadge |-> [textContent |-> Markup, classList |-> classes],
          subscriptionTitle |-> Markup, subscriptionMeta |-> <<<<Markup>>>>,
          highlightGrid |-> <<>>,
          actionList |-> <<>>, actionsCard |-> Markup,
          paymentsCard |-> Markup, paymentMethods |-> <<>>,
          devicesCard |-> Markup, deviceList |-> <<>>,
          transactionsCard |-> Markup, transactionList |-> <<>>,
          platformCard |-> Markup, platformBlock |-> <<>>]
  /\ inflight = <<>>
  /\ calls = [e \in Endpoints |-> 0]
  /\ bootLog = <<>>
  /\ atFailure = Absent
  /\ afterAccount = Absent
  /\ pay = [clicks |-> 0, touched |-> <<>>, sent |-> <<>>, outcome |-> <<>>, effects |-> <<>>]
  /\ probe = NoProbe

Init == env \in Envs /\ PageLoaded

Issue(endpoint) == [calls EXCEPT ![endpoint] = @ + 1]

(***************************************************************************)
(* bootstrap(), from its call to its first await: loadConfig's fetch.      *)
(***************************************************************************)
Bootstrap ==
  /\ pc = "boot"
  /\ appState' = [appState EXCEPT !.initData = readInitData(env),
                                  !.platform = detectPlatform(env.userAgent)]
  /\ calls' = Issue("config")
  /\ bootLog' = <<"config:request">>
  /\ pc' = "config"
  /\ UNCHANGED <<probe, env, selectors, inflight, atFailure, afterAccount, pay>>

(***************************************************************************)
(* The config fetch settles.  A rejection leaves bootstrap() rejected: the *)
(* await is outside its try block.  Else loadConfig finishes, and          *)
(* bootstrap shows the init error or goes on to loadSubscription's fetch.  *)
(***************************************************************************)
configLog(body) ==
  <<"config:resolved">> \o (IF body.kind = "unparsable" THEN <<"config:unparsable">> ELSE <<>>)

ConfigSettles ==
  /\ pc = "config"
  /\ \E o \in ConfigOutcomes :
       IF o.kind = "netfail"
         THEN /\ pc' = "rejected"
              /\ bootLog' = Append(bootLog, "config:rejected")
              /\ UNCHANGED <<appState, selectors, calls>>
         ELSE /\ appState' = [appState EXCEPT !.config = Just(parsedConfig(o.body))]
              /\ IF tokenMissing(appState.initData)
                   THEN /\ selectors' = showInitError(loadConfig(selectors, o.body))
                        /\ pc' = "done"
                        /\ bootLog' = bootLog \o configLog(o.body) \o <<"tokenCheck", "render:initError">>
                        /\ UNCHANGED calls
                   ELSE /\ selectors' = loadConfig(selectors, o.body)
                        /\ pc' = "subscription"
                        /\ calls' = Issue("subscription")
                        /\ bootLog' = bootLog \o configLog(o.body) \o <<"tokenCheck", "subscription:request">>
  /\ UNCHANGED <<probe, env, inflight, atFailure, afterAccount, pay>>

(***************************************************************************)
(* The account fetch settles.  loadSubscription stores the snapshot and    *)
(* runs the five renderers; a throw of fetchJson or of a renderer lands in *)
(* bootstrap's catch block; else loadPayments' fetch is issued.            *)
(***************************************************************************)
SubscriptionSettles ==
  /\ pc = "subscription"
  /\ \E o \in SubscriptionOutcomes :
       LET r == fetchJson(o)
           rendered == renderAccount(selectors, r.data, appState.config, appState.platform,
                                     activeLanguage(env))
           threw == r.threw \/ rendered.threw
           reached == IF r.threw THEN selectors ELSE rendered.sel
           log == IF r.threw THEN <<"subscription:rejected">>
                  ELSE <<"subscription:resolved">> \o rendered.log
       IN /\ appState' = IF r.threw THEN appState ELSE [appState EXCEPT !.subscription = r.data]
          /\ IF afterSubscription(threw) = "catch"
               THEN /\ selectors' = bootstrapCatch(reached)
                    /\ atFailure' = Just(reached)
                    /\ pc' = "done"
                    /\ bootLog' = bootLog \o log \o <<"catch">>
                    /\ UNCHANGED <<calls, afterAccount>>
               ELSE /\ selectors' = reached
                    /\ afterAccount' = Just(reached)
                    /\ pc' = "methods"
                    /\ calls' = Issue("methods")
                    /\ bootLog' = bootLog \o log
                                  \o <<IF threw THEN "subscription:failed" ELSE "subscription:done",
                                       "methods:request">>
                    /\ UNCHANGED atFailure
  /\ UNCHANGED <<probe, env, inflight, pay>>

(***************************************************************************)
(* The payment-methods fetch settles.  loadPayments stores the methods and *)
(* renders the panel; any throw is caught inside loadPayments, which hides *)
(* the panel.  bootstrap() then returns.                                   *)
(***************************************************************************)
storedMethods(data) == IF data.methods.kind = "absent" THEN Array(<<>>) ELSE data.methods

MethodsSettles ==
  /\ pc = "methods"
  /\ \E o \in MethodsOutcomes :
       LET r == fetchJson(o)
           readable == ~r.threw /\ r.data.kind # "null"
           methods == IF readable THEN storedMethods(r.data) ELSE Array(<<>>)
           rendered == renderPayments(selectors, methods)
           threw == ~readable \/ rendered.threw
           sel == IF threw
                    THEN paymentsUnavailable(IF readable THEN rendered.sel ELSE selectors)
                    ELSE rendered.sel
           n == Len(sel.paymentMethods)
       IN /\ appState' = IF readable THEN [appState EXCEPT !.paymentMethods = methods] ELSE appState
          /\ selectors' = sel
          /\ inflight' = [i \in 1..n |-> <<>>]
          /\ pay' = [pay EXCEPT !.touched = [i \in 1..n |-> FALSE],
                                !.sent = [i \in 1..n |-> <<>>],
                                !.outcome = [i \in 1..n |-> <<>>],
                                !.effects = [i \in 1..n |-> [opened |-> <<>>, alerts |-> <<>>]]]
          /\ bootLog' = bootLog
                        \o <<IF r.threw THEN "methods:rejected" ELSE "methods:resolved">>
                        \o (IF readable THEN <<"render:payments">> ELSE <<>>)
                        \o (IF threw THEN <<"payments:unavailable">> ELSE <<>>)
  /\ pc' = "done"
  /\ UNCHANGED <<probe, env, calls, atFailure, afterAccount>>

(***************************************************************************)
(* The user: a click on a pay button that is visible and not disabled, a   *)
(* new value in an amount field, another option in a select.               *)
(***************************************************************************)
Wrappers == 1..Len(selectors.paymentMethods)

Clickable(i) ==
  /\ selectors.paymentsCard = Shown
  /\ ~selectors.paymentMethods[i].payButton.disabled

\* What the user has put into the fields of wrapper i: the amount and the selected option.
UserInput(i) ==
  [amount |-> selectors.paymentMethods[i].amount.value,
   option |-> selectors.paymentMethods[i].option.value]

\* The payload of the last submission of wrapper i, when that submission failed (the handler's
\* catch block ran) and the fields hold now what they held then; else absent.
FailedWithSameInput(i) ==
  IF /\ pay.sent[i] # <<>> /\ pay.outcome[i] # <<>>
     /\ createResult(pay.outcome[i][1]).failed
     /\ pay.sent[i][1].input = UserInput(i)
    THEN Just(pay.sent[i][1].payload)
    ELSE Absent

\* What the amount field holds when the click is made, for the record.
FieldState(i) ==
  IF ~selectors.paymentMethods[i].amount.exists THEN "none"
  ELSE IF selectors.paymentMethods[i].amount.value = <<>> THEN "empty"
  ELSE IF pay.touched[i] THEN "typed"
  ELSE "untouched"

\* A handler that disables the pay button of every method while its request is pending.
Click_DisablesEveryButton(i) ==
  /\ Clickable(i)
  /\ pay.clicks < MaxClicks
  /\ LET payload == createPayload(appState.initData, selectors.paymentMethods[i])
     IN /\ selectors' = [selectors EXCEPT
                           !.paymentMethods =
                              [j \in 1..Len(@) |->
                                 IF j = i THEN clickStart(@[j])
                                 ELSE [@[j] EXCEPT !.payButton.disabled = TRUE]]]
        /\ inflight' = [inflight EXCEPT ![i] = Append(@, payload)]
        /\ calls' = Issue("create")
        /\ pay' = [pay EXCEPT !.clicks = @ + 1,
                              !.sent[i] = Just([payload |-> payload, field |-> FieldState(i),
                                                   input |-> UserInput(i),
                                                   resubmits |-> FailedWithSameInput(i)]),
                              !.outcome[i] = <<>>,
                              !.effects[i] = [opened |-> <<>>, alerts |-> <<>>]]
  /\ UNCHANGED <<probe, env, pc, appState, bootLog, atFailure, afterAccount>>

Click(i) ==
  /\ Clickable(i)
  /\ pay.clicks < MaxClicks
  /\ LET payload == createPayload(appState.initData, selectors.paymentMethods[i])
     IN /\ selectors' = [selectors EXCEPT !.paymentMethods[i] = clickStart(@)]
        /\ inflight' = [inflight EXCEPT ![i] = Append(@, payload)]
        /\ calls' = Issue("create")
        /\ pay' = [pay EXCEPT !.clicks = @ + 1,
                              !.sent[i] = Just([payload |-> payload, field |-> FieldState(i),
                                                   input |-> UserInput(i),
                                                   resubmits |-> FailedWithSameInput(i)]),
                              !.outcome[i] = <<>>,
                              !.effects[i] = [opened |-> <<>>, alerts |-> <<>>]]
  /\ UNCHANGED <<probe, env, pc, appState, bootLog, atFailure, afterAccount>>

\* window.open and alert, as the lists of what was opened and what was shown.
createEffects(result) ==
  [opened |-> IF ~result.failed /\ result.url # "" THEN <<result.url>> ELSE <<>>,
   alerts |-> IF result.failed THEN <<<<"Cannot start payment: ", result.message>>>> ELSE <<>>]

CreateSettles(i) ==
  /\ inflight[i] # <<>>
  /\ \E o \in CreateOutcomes :
       LET result == createResult(o)
           effects == createEffects(result)
       IN /\ selectors' = [selectors EXCEPT !.paymentMethods[i] = clickSettle(@, result)]
          /\ inflight' = [inflight EXCEPT ![i] = Tail(@)]
          /\ pay' = [pay EXCEPT !.outcome[i] = Just(o),
                                !.effects[i] = [opened |-> @.opened \o effects.opened,
                                                alerts |-> @.alerts \o effects.alerts]]
  /\ UNCHANGED <<probe, env, pc, appState, calls, bootLog, atFailure, afterAccount>>

SetAmount(i) ==
  /\ selectors.paymentsCard = Shown
  /\ selectors.paymentMethods[i].amount.exists
  /\ \E v \in AmountInputs :
       /\ v # selectors.paymentMethods[i].amount.value
       /\ selectors' = [selectors EXCEPT !.paymentMethods[i].amount.value = v]
  /\ pay' = [pay EXCEPT !.touched[i] = TRUE]
  /\ UNCHANGED <<probe, env, pc, appState, inflight, calls, bootLog, atFailure, afterAccount>>

SelectOption(i) ==
  /\ selectors.paymentsCard = Shown
  /\ selectors.paymentMethods[i].option.exists
  /\ \E k \in 1..Len(selectors.paymentMethods[i].method.options) :
       /\ selectors.paymentMethods[i].method.options[k].id # selectors.paymentMethods[i].option.value
       /\ selectors' = [selectors EXCEPT
                          !.paymentMethods[i].option.value =
                             selectors.paymentMethods[i].method.options[k].id]
  /\ UNCHANGED <<probe, env, pc, appState, inflight, calls, bootLog, atFailure, afterAccount, pay>>

Next ==
  \/ Bootstrap
  \/ ConfigSettles
  \/ SubscriptionSettles
  \/ MethodsSettles
  \/ \E i \in Wrappers : Click(i)
  \/ \E i \in Wrappers : CreateSettles(i)
  \/ \E i \in Wrappers : SetAmount(i)
  \/ \E i \in Wrappers : SelectOption(i)

Spec == Init /\ [][Next]_vars

\* A request that was sent is answered: the payment-create call settles.
FairSpec == Spec /\ WF_vars(\E i \in Wrappers : CreateSettles(i))

(***************************************************************************)
(* bootstrap's first step on any user agent: the keywords the patterns of  *)
(* detectPlatform look for, and one ("x11") that no pattern looks for, in  *)
(* every combination.                                                      *)
(***************************************************************************)
UserAgentKeywords ==
  {"iphone", "ipad", "ipod", "android", "windows", "macintosh", "mac os x", "linux", "tv", "x11"}

PlatformEnvs ==
  { [tgInitData |-> "tg-token", tgQueryId |-> "q1", queryInitData |-> "",
     userAgent |-> ua, tgLanguage |-> "", navLanguage |-> "en"] :
    ua \in SUBSET UserAgentKeywords }

PlatformInit == env \in PlatformEnvs /\ PageLoaded

PlatformNext == Bootstrap

PlatformSpec == PlatformInit /\ [][PlatformNext]_vars

(***************************************************************************)
(* resolveI18n called directly, with the active language of any host and   *)
(* browser, on null, on a string and on every mapping of up to MaxEntries  *)
(* languages whose texts may be empty.                                     *)
(***************************************************************************)
MaxEntries == 2

Languages == {"ru", "en", "de", "fr"}

Greeting == [ru |-> "privet", en |-> "hello", de |-> "hallo", fr |-> "salut"]

I18nEntries == UNION { { <<k, "">>, <<k, Greeting[k]>> } : k \in Languages }

I18nMappings ==
  { m \in UNION { [1..n -> I18nEntries] : n \in 0..MaxEntries } :
      \A a, b \in DOMAIN m : a # b => m[a][1] # m[b][1] }

I18nEntities == {NullEntity, Str(""), Str("plain")} \cup { Map(m) : m \in I18nMappings }

I18nEnvs ==
  { [tgInitData |-> "tg-token", tgQueryId |-> "q1", queryInitData |-> "",
     userAgent |-> {"x11"}, tgLanguage |-> t, navLanguage |-> n] :
    t \in {"", "ru"}, n \in {"", "de", "en"} }

I18nInit == env \in I18nEnvs /\ PageLoaded

ResolveI18n ==
  /\ probe.times = 0
  /\ \E entity \in I18nEntities :
       probe' = [fn |-> "resolveI18n", input |-> Just(entity), times |-> 1, rounds |-> 1,
                 result |-> Just(resolveI18n(entity, activeLanguage(env)))]
  /\ UNCHANGED <<env, pc, appState, selectors, inflight, calls, bootLog, atFailure, afterAccount,
                 pay>>

I18nNext == ResolveI18n

I18nSpec == I18nInit /\ [][I18nNext]_vars

(***************************************************************************)
(* The section renderers called directly, as a reload of the data would    *)
(* call them: a renderer is invoked on the page as it stands, and then     *)
(* once more with the same input.  The input is what the renderers read:   *)
(* the account snapshot, the config and the payment methods.               *)
(***************************************************************************)
MaxRenders == 2

Renderers ==
  {"renderStatusCard", "renderActions", "renderDevices", "renderTransactions",
   "renderPlatformGuide", "renderPayments"}

RenderInputs ==
  { [data |-> d, config |-> Just(parsedConfig(c)), methods |-> m] :
      d \in {BareSnapshot, FullSnapshot},
      c \in ConfigBodies,
      m \in {Array(<<>>), Array(<<CardMethod, StarsMethod>>)} }

invoke(name, sel, input) ==
  CASE name = "renderStatusCard" -> renderStatusCard(sel, input.data)
    [] name = "renderActions" -> renderActions(sel, input.data)
    [] name = "renderDevices" -> renderDevices(sel, input.data)
    [] name = "renderTransactions" -> renderTransactions(sel, input.data)
    [] name = "renderPlatformGuide" ->
         renderPlatformGuide(sel, input.config, input.data, detectPlatform(env.userAgent),
                             activeLanguage(env))
    [] OTHER -> renderPayments(sel, input.methods)

RenderOnce ==
  /\ probe.times # 1
  /\ probe.rounds < MaxRenders
  /\ \E name \in Renderers, input \in RenderInputs :
       LET after == invoke(name, selectors, input).sel
       IN /\ selectors' = after
          /\ probe' = [fn |-> name, input |-> Just(input), times |-> 1,
                       rounds |-> probe.rounds + 1, result |-> Just(after)]
  /\ UNCHANGED <<env, pc, appState, inflight, calls, bootLog, atFailure, afterAccount, pay>>

RenderAgain ==
  /\ probe.times = 1
  /\ probe.fn \in Renderers
  /\ selectors' = invoke(probe.fn, selectors, probe.input[1]).sel
  /\ probe' = [probe EXCEPT !.times = 2]
  /\ UNCHANGED <<env, pc, appState, inflight, calls, bootLog, atFailure, afterAccount, pay>>

RenderNext == RenderOnce \/ RenderAgain

RenderSpec == Init /\ [][RenderNext]_vars

(***************************************************************************)
(* What the claims speak of.                                               *)
(***************************************************************************)
Logged(event) == \E i \in 1..Len(bootLog) : bootLog[i] = event

\* Every occurrence of event b in the log comes after an occurrence of event a.
Before(a, b) ==
  \A j \in 1..Len(bootLog) : bootLog[j] = b => \E i \in 1..(j - 1) : bootLog[i] = a

Occurrences(event) == Cardinality({i \in 1..Len(bootLog) : bootLog[i] = event})

\* The host gave no token and the page URL carries none.
NoInitToken == env.tgInitData = "" /\ env.queryInitData = ""

BootstrapEnded == pc \in {"done", "rejected"}

Cards == {"actionsCard", "paymentsCard", "devicesCard", "transactionsCard", "platformCard"}

\* The account-derived sections other than the status line: what the renderers made of them.
AccountSections(sel) ==
  [subscriptionTitle |-> sel.subscriptionTitle, highlightGrid |-> sel.highlightGrid,
   actionsCard |-> sel.actionsCard, actionList |-> sel.actionList,
   devicesCard |-> sel.devicesCard, deviceList |-> sel.deviceList,
   transactionsCard |-> sel.transactionsCard, transactionList |-> sel.transactionList,
   platformCard |-> sel.platformCard, platformBlock |-> sel.platformBlock]

\* The status area: the badge and the line under the title.
StatusArea(sel) == [statusBadge |-> sel.statusBadge, subscriptionMeta |-> sel.subscriptionMeta]

ShowsGenericError(sel) ==
  sel.subscriptionMeta = FailedToLoad \/ sel.statusBadge.textContent = "Error"

(***************************************************************************)
(* C1.  With no init token, bootstrap ends in the unauthenticated state:   *)
(* the five sections are hidden, the badge reads 'Not authorized', and the *)
(* config fetch is the only request of the run.  Refuted: when the config  *)
(* fetch is rejected bootstrap ends rejected (C5) and nothing is hidden.   *)
(***************************************************************************)
C1_UnauthenticatedEnd ==
  NoInitToken =>
    /\ calls["subscription"] = 0 /\ calls["methods"] = 0 /\ calls["create"] = 0
    /\ calls["config"] <= 1
    /\ BootstrapEnded =>
         /\ \A c \in Cards : selectors[c] = Hidden
         /\ selectors.statusBadge.textContent = "Not authorized"

(***************************************************************************)
(* C2.  The loads are ordered: the config load is resolved before the      *)
(* token check, the account request has succeeded and loadSubscription has *)
(* returned before the payment-methods request is issued, a renderer       *)
(* starts only after the load it reads from is resolved, and each loader   *)
(* is invoked at most once.                                                *)
(***************************************************************************)
C2_LoadsOrdered ==
  /\ Before("config:resolved", "tokenCheck")
  /\ Before("subscription:resolved", "methods:request")
  /\ Before("subscription:done", "methods:request")
  /\ \A r \in {"render:status", "render:actions", "render:devices", "render:transactions",
               "render:platform"} :
       Before("subscription:resolved", r)
  /\ Before("config:resolved", "render:platform")
  /\ Before("config:resolved", "render:initError")
  /\ Before("methods:resolved", "render:payments")
  /\ \A e \in {"config", "subscription", "methods"} : calls[e] <= 1
  /\ \A e \in {"config:request", "subscription:request", "methods:request"} : Occurrences(e) <= 1

C2_Witness == pc = "done" /\ Logged("render:payments") /\ Logged("render:platform")

(***************************************************************************)
(* C3.  When the payment-methods load fails after the account was loaded,  *)
(* the payment panel is hidden, the account-derived sections and the       *)
(* status area are as the account render left them, and the status area    *)
(* shows neither the generic error line nor the 'Error' badge.             *)
(***************************************************************************)
PaymentsLoadFailed == Logged("methods:rejected") \/ Logged("payments:unavailable")

C3_PaymentsFailureIsLocal ==
  PaymentsLoadFailed =>
    /\ afterAccount # Absent
    /\ selectors.paymentsCard = Hidden
    /\ AccountSections(selectors) = AccountSections(afterAccount[1])
    /\ StatusArea(selectors) = StatusArea(afterAccount[1])
    /\ ~ShowsGenericError(selectors)

C3_Witness ==
  /\ pc = "done"
  /\ Logged("methods:rejected")
  /\ selectors.devicesCard = Shown
  /\ selectors.paymentsCard = Hidden

(***************************************************************************)
(* C4.  When the account request fails or an account renderer throws, the  *)
(* status line reads 'Failed to load data', the badge reads 'Error' and    *)
(* carries the danger class, and every other section is as it was when the *)
(* failure was raised.                                                     *)
(***************************************************************************)
C4_FailureKeepsSections ==
  atFailure # Absent =>
    /\ selectors.subscriptionMeta = FailedToLoad
    /\ selectors.statusBadge.textContent = "Error"
    /\ "badge--danger" \in selectors.statusBadge.classList
    /\ AccountSections(selectors) = AccountSections(atFailure[1])
    /\ selectors.paymentsCard = atFailure[1].paymentsCard

\* A renderer threw part-way: the device list holds the items made before the throw.
C4_Witness ==
  /\ atFailure # Absent
  /\ Logged("render:devices") /\ ~Logged("render:transactions")
  /\ selectors.deviceList # <<>>
  /\ selectors.devicesCard = Shown

(***************************************************************************)
(* C5.  A failed config load (network error or unparsable body) ends the   *)
(* bootstrap pass with the generic error line in the status area; it does  *)
(* not leave bootstrap rejected, and the account request is not sent.      *)
(* Refuted: a rejected config fetch rejects bootstrap, the await being     *)
(* outside the try block, and an unparsable body is read as an empty       *)
(* config after which the account is requested.                            *)
(***************************************************************************)
ConfigLoadFailed == Logged("config:rejected") \/ Logged("config:unparsable")

C5_ConfigFailureSurfaced ==
  ConfigLoadFailed =>
    /\ pc # "rejected"
    /\ calls["subscription"] = 0
    /\ BootstrapEnded => selectors.subscriptionMeta = FailedToLoad

(***************************************************************************)
(* The payment workflow.  Method ids are unique in a methods list, so a    *)
(* method is its wrapper.                                                  *)
(***************************************************************************)
MaxWrappers == 2

Button(i) == selectors.paymentMethods[i].payButton

Pending(i) == Len(inflight[i])

\* The last submission of wrapper i has settled, with outcome o.
Settled(i) == pay.outcome[i] # <<>> /\ inflight[i] = <<>>

\* The call failed: a network error, a non-2xx status, or a body that is no JSON object.
CallFailed(o) ==
  \/ o.kind \in {"netfail", "http", "badjson"}
  \/ o.kind = "json" /\ o.data.kind = "null"

\* The detail of a failure: the text of a non-2xx answer, else what the error says.
FailureDetail(o) ==
  CASE o.kind = "http" /\ o.text # "" -> o.text
    [] o.kind = "http" /\ o.text = "" -> "Request failed (status)"
    [] o.kind = "netfail" -> "Failed to fetch"
    [] o.kind = "badjson" -> "SyntaxError"
    [] OTHER -> "TypeError"

CallGaveUrl(o) == o.kind = "json" /\ o.data.kind = "object" /\ o.data.payment_url # ""

CallGaveNoUrl(o) == o.kind = "json" /\ o.data.kind = "object" /\ o.data.payment_url = ""

(***************************************************************************)
(* C6.  A payment method never has two payment-create requests in flight:  *)
(* its button is disabled exactly while its request is pending.            *)
(***************************************************************************)
C6_OneRequestInFlight ==
  \A i \in Wrappers :
    /\ Pending(i) <= 1
    /\ Button(i).disabled <=> Pending(i) = 1

\* A second submission of a method is pending, the first having settled.
C6_Witness ==
  \E i \in Wrappers : Pending(i) = 1 /\ pay.clicks >= 2 /\ \A j \in Wrappers \ {i} : pay.sent[j] = <<>>

(***************************************************************************)
(* C7.  A submission issues one payment-create call and has one outcome:   *)
(* a call that gives a URL opens that URL once, shows no alert and leaves  *)
(* the button 'Open again'; a call that fails opens nothing, shows one     *)
(* alert that carries the failure detail and leaves the button 'Try        *)
(* again'.                                                                 *)
(***************************************************************************)
C7_OneCallOneOutcome ==
  /\ calls["create"] = pay.clicks
  /\ \A i \in Wrappers :
       Settled(i) =>
         LET o == pay.outcome[i][1]
             fx == pay.effects[i]
         IN /\ CallGaveUrl(o) =>
                 /\ fx.opened = <<o.data.payment_url>>
                 /\ fx.alerts = <<>>
                 /\ Button(i).textContent = "Open again"
            /\ CallFailed(o) =>
                 /\ fx.opened = <<>>
                 /\ Len(fx.alerts) = 1
                 /\ fx.alerts[1][2] = FailureDetail(o)
                 /\ Button(i).textContent = "Try again"

\* A method failed with the text of a non-2xx answer, another opened its URL.
C7_Witness ==
  \E i, j \in Wrappers :
    /\ Settled(i) /\ pay.outcome[i][1].kind = "http" /\ pay.outcome[i][1].text # ""
    /\ Settled(j) /\ CallGaveUrl(pay.outcome[j][1])

(***************************************************************************)
(* C8.  A payment-create answer without a payment URL is a failure: a      *)
(* message is shown and the method does not become Succeeded.  Refuted:    *)
(* the handler opens nothing, shows nothing and labels the button 'Open    *)
(* again'.                                                                 *)
(***************************************************************************)
C8_NoUrlIsFailure ==
  \A i \in Wrappers :
    (Settled(i) /\ CallGaveNoUrl(pay.outcome[i][1])) =>
      /\ pay.effects[i].alerts # <<>>
      /\ Button(i).textContent # "Open again"

(***************************************************************************)
(* C9.  Given that a payment-create call settles, a disabled pay button is *)
(* enabled again; a settled button, Succeeded or Failed, can be clicked;   *)
(* and while the call is pending the button stays disabled.                *)
(***************************************************************************)
DisabledButton(i) == i \in Wrappers /\ Button(i).disabled

C9_ButtonReturns ==
  /\ [](\A i \in Wrappers : Pending(i) > 0 => Button(i).disabled)
  /\ [](\A i \in Wrappers :
          Button(i).textContent \in {"Open again", "Try again"} => Clickable(i))
  /\ \A i \in 1..MaxWrappers : DisabledButton(i) ~> ~DisabledButton(i)

\* A failed submission has settled and its button can be clicked again.
C9_Witness ==
  \E i \in Wrappers :
    /\ Settled(i) /\ CallFailed(pay.outcome[i][1])
    /\ ~DisabledButton(i)
    /\ Clickable(i)

(***************************************************************************)
(* C10.  The amount sent by a method that requires an amount when the user *)
(* gave none.  As claimed: the method's minimum (1 ruble when it has none) *)
(* whether the field was left untouched or left empty.  Refuted for the    *)
(* empty field, which is sent as 0.                                        *)
(***************************************************************************)
\* The method's minimum in hundredths of a ruble, 1 ruble when it defines none.
MinimumOf(method) ==
  IF method.min_amount_kopeks # Absent THEN method.min_amount_kopeks[1] ELSE 100

SentWith(i, fields) ==
  /\ pay.sent[i] # <<>>
  /\ selectors.paymentMethods[i].method.requires_amount
  /\ pay.sent[i][1].field \in fields

C10_DefaultsToMinimum ==
  \A i \in Wrappers :
    SentWith(i, {"untouched", "empty"}) =>
      pay.sent[i][1].payload.amountRubles = <<MinimumOf(selectors.paymentMethods[i].method)>>

\* C10 as amended: an untouched field sends the minimum, an emptied field sends 0.
C10_UntouchedSendsMinimum ==
  \A i \in Wrappers :
    /\ SentWith(i, {"untouched"}) =>
         pay.sent[i][1].payload.amountRubles = <<MinimumOf(selectors.paymentMethods[i].method)>>
    /\ SentWith(i, {"empty"}) => pay.sent[i][1].payload.amountRubles = <<0>>

\* A method without a minimum was submitted with its field untouched.
C10_Witness ==
  \E i \in Wrappers :
    /\ SentWith(i, {"untouched"})
    /\ selectors.paymentMethods[i].method.min_amount_kopeks = Absent
    /\ pay.sent[i][1].payload.amountRubles = <<100>>

(***************************************************************************)
(* C11.  A method that is submitted again after a failed attempt, with its *)
(* amount field and its selected option as they were, sends the request of *)
(* the failed attempt: the same token, method id, amount and option.       *)
(***************************************************************************)
C11_RetrySendsSameRequest ==
  \A i \in Wrappers :
    (pay.sent[i] # <<>> /\ pay.sent[i][1].resubmits # Absent) =>
      LET again == pay.sent[i][1].payload
          failed == pay.sent[i][1].resubmits[1]
      IN /\ again.initData = failed.initData
         /\ again.method = failed.method
         /\ again.amountRubles = failed.amountRubles
         /\ again.option = failed.option

\* A method with an amount and an option has been submitted again after a failure.
C11_Witness ==
  \E i \in Wrappers :
    /\ pay.sent[i] # <<>> /\ pay.sent[i][1].resubmits # Absent
    /\ pay.sent[i][1].payload.option # Absent
    /\ pay.sent[i][1].payload.amountRubles # Absent
    /\ Pending(i) = 1

(***************************************************************************)
(* C12.  After the account is rendered, each collection section (links,    *)
(* devices, transactions) is hidden exactly when its collection is empty   *)
(* and shown otherwise; shown, it holds one item per element in the order  *)
(* received, a link once per distinct value, the transactions cut to the   *)
(* first 5.                                                                *)
(***************************************************************************)
AccountRendered == Logged("subscription:done")

\* The links of a snapshot as received: the three direct links, then the links array.
LinksReceived(d) ==
  SelectSeq(<<d.subscription_url, d.happ_link, d.happ_crypto_link>> \o d.links.items,
            LAMBDA v : v # "")

Values(s) == {s[k] : k \in 1..Len(s)}

FirstAt(s, v) == CHOOSE k \in 1..Len(s) : s[k] = v /\ \A j \in 1..(k - 1) : s[j] # v

HiddenIffEmpty(card, collection) ==
  /\ card \in {Hidden, Shown}
  /\ card = Hidden <=> collection = <<>>

C12_SectionsFollowCollections ==
  AccountRendered =>
    LET d == appState.subscription
        links == LinksReceived(d)
        devices == d.connected_devices.items
        transactions == d.transactions.items
        shownLinks == selectors.actionList
        shownTx == selectors.transactionList
    IN /\ HiddenIffEmpty(selectors.actionsCard, links)
       /\ Values(shownLinks) = Values(links)
       /\ Len(shownLinks) = Cardinality(Values(links))
       /\ \A a, b \in 1..Len(shownLinks) :
            a < b => FirstAt(links, shownLinks[a]) < FirstAt(links, shownLinks[b])
       /\ HiddenIffEmpty(selectors.devicesCard, devices)
       /\ Len(selectors.deviceList) = Len(devices)
       /\ \A k \in 1..Len(devices) : selectors.deviceList[k] = deviceLabel(devices[k])
       /\ HiddenIffEmpty(selectors.transactionsCard, transactions)
       /\ Len(shownTx) = (IF Len(transactions) > 5 THEN 5 ELSE Len(transactions))
       /\ \A k \in 1..Len(shownTx) : shownTx[k] = transactionItem(transactions[k])

\* Six transactions were received and five are shown; a link received twice is shown once.
C12_Witness ==
  /\ AccountRendered
  /\ Len(appState.subscription.transactions.items) = 6
  /\ Len(selectors.transactionList) = 5
  /\ Len(LinksReceived(appState.subscription)) > Len(selectors.actionList)
  /\ selectors.actionsCard = Shown
  /\ Len(selectors.deviceList) = 2

\* An account without links, devices or transactions was rendered: the three sections are hidden.
C12_NothingToShow ==
  /\ AccountRendered
  /\ selectors.actionsCard = Hidden
  /\ selectors.devicesCard = Hidden
  /\ selectors.transactionsCard = Hidden

(***************************************************************************)
(* C13.  Every section renderer is idempotent: invoked twice in succession *)
(* with the same input it leaves the page (the visibility of the sections, *)
(* the items of the lists, the classes of the status badge) as one         *)
(* invocation left it.  Refuted for the status card: with no               *)
(* user.subscription_missing in the snapshot the badge--danger class is    *)
(* flipped at every invocation.                                            *)
(***************************************************************************)
RenderedTwice(name) == probe.fn = name /\ probe.times = 2

C13_RenderersIdempotent ==
  \A name \in Renderers : RenderedTwice(name) => selectors = probe.result[1]

\* The five renderers other than the status card leave the page as their first invocation did.
C13_ListRenderersIdempotent ==
  \A name \in Renderers \ {"renderStatusCard"} :
    RenderedTwice(name) => selectors = probe.result[1]

\* The payment panel was rendered twice with two methods.
C13_Witness ==
  /\ RenderedTwice("renderPayments")
  /\ Len(selectors.paymentMethods) = 2

(***************************************************************************)
(* C14.  detectPlatform gives one of the seven tags for any user agent:    *)
(* the first of iOS, Android, Windows, Mac, Linux, AndroidTV whose pattern *)
(* matches, and generic only when none of the six patterns matches.        *)
(***************************************************************************)
PlatformPriority == <<"ios", "android", "windows", "mac", "linux", "androidTV">>

PlatformPattern ==
  [ios |-> {"iphone", "ipad", "ipod"}, android |-> {"android"}, windows |-> {"windows"},
   mac |-> {"macintosh", "mac os x"}, linux |-> {"linux"}, androidTV |-> {"tv"}]

Matches(ua, tag) == ua \cap PlatformPattern[tag] # {}

PlatformDetected == pc # "boot"

C14_FirstMatchWins ==
  PlatformDetected =>
    LET tag == appState.platform
        ua == env.userAgent
    IN /\ tag \in {"ios", "android", "windows", "mac", "linux", "androidTV", "generic"}
       /\ tag = "generic" <=> \A k \in 1..6 : ~Matches(ua, PlatformPriority[k])
       /\ \A k \in 1..6 :
            tag = PlatformPriority[k] =>
              /\ Matches(ua, tag)
              /\ \A j \in 1..(k - 1) : ~Matches(ua, PlatformPriority[j])

\* A user agent that matches the Linux pattern and the TV pattern is detected as Linux.
C14_Witness ==
  /\ PlatformDetected
  /\ env.userAgent = {"linux", "tv", "x11"}
  /\ appState.platform = "linux"

(***************************************************************************)
(* C15.  resolveI18n returns a plain string unchanged; of a mapping the    *)
(* entry of the active language when the mapping has it, else the "en"     *)
(* entry, else the first entry; and null for a null input and for a        *)
(* mapping with no entries.  Refuted: a mapping with no entries gives      *)
(* undefined, an empty string gives null, and an entry that is the empty   *)
(* string is passed over.                                                  *)
(***************************************************************************)
Resolved == probe.fn = "resolveI18n"

Present(entries, key) == \E i \in 1..Len(entries) : entries[i][1] = key

EntryOf(entries, key) == entries[CHOOSE i \in 1..Len(entries) : entries[i][1] = key][2]

C15_FallbackOrder ==
  Resolved =>
    LET entity == probe.input[1]
        entries == entity.entries
        lang == activeLanguage(env)
        result == probe.result[1]
    IN /\ entity.kind = "null" => result = JsNull
       /\ entity.kind = "string" => result = entity.s
       /\ entity.kind = "map" =>
            result = (IF Present(entries, lang) THEN EntryOf(entries, lang)
                      ELSE IF Present(entries, "en") THEN EntryOf(entries, "en")
                      ELSE IF entries # <<>> THEN entries[1][2]
                      ELSE JsNull)

\* What does hold: the order of the claim over the entries that are not empty strings, with
\* undefined for a mapping with no entries and null for the empty string.
HasText(entries, key) == Present(entries, key) /\ EntryOf(entries, key) # ""

C15_FallbackOrderOverTexts ==
  Resolved =>
    LET entity == probe.input[1]
        entries == entity.entries
        lang == activeLanguage(env)
        result == probe.result[1]
    IN /\ entity.kind = "null" => result = JsNull
       /\ entity.kind = "string" => result = (IF entity.s = "" THEN JsNull ELSE entity.s)
       /\ entity.kind = "map" =>
            result = (IF HasText(entries, lang) THEN EntryOf(entries, lang)
                      ELSE IF HasText(entries, "en") THEN EntryOf(entries, "en")
                      ELSE IF entries # <<>> THEN entries[1][2]
                      ELSE JsUndefined)

(***************************************************************************)
(* C16.  Every payment-create request carries the method's id, an amount   *)
(* exactly when the method requires an amount, and an option exactly when  *)
(* the method has at least one option; a method that requires no amount    *)
(* and has no options sends neither.                                       *)
(***************************************************************************)
CarriesFieldsOf(payload, method) ==
  /\ payload.method = method.id
  /\ payload.amountRubles # Absent <=> method.requires_amount
  /\ payload.option # Absent <=> Len(method.options) >= 1

C16_RequestCarriesFields ==
  \A i \in Wrappers :
    LET method == selectors.paymentMethods[i].method
    IN /\ pay.sent[i] # <<>> => CarriesFieldsOf(pay.sent[i][1].payload, method)
       /\ \A k \in 1..Len(inflight[i]) : CarriesFieldsOf(inflight[i][k], method)

\* A method without amount and options was submitted, and a method with both.
C16_Witness ==
  \E i, j \in Wrappers :
    /\ pay.sent[i] # <<>>
    /\ ~selectors.paymentMethods[i].method.requires_amount
    /\ selectors.paymentMethods[i].method.options = <<>>
    /\ pay.sent[i][1].payload.amountRubles = Absent
    /\ pay.sent[i][1].payload.option = Absent
    /\ pay.sent[j] # <<>>
    /\ pay.sent[j][1].payload.amountRubles # Absent
    /\ pay.sent[j][1].payload.option = <<"o2">>

(***************************************************************************)
(* C17.  Every payment-create request carries a non-empty token, the one   *)
(* bootstrap resolved at its start (the host's, else the page URL's); the  *)
(* token is not changed after bootstrap resolved it; and in a run without  *)
(* a token there is no pay button and no payment request.                  *)
(***************************************************************************)
ResolvedToken == IF env.tgInitData # "" THEN env.tgInitData ELSE env.queryInitData

CarriesToken(payload) == payload.initData # "" /\ payload.initData = ResolvedToken

TokenInEveryRequest ==
  /\ pc # "boot" => appState.initData = ResolvedToken
  /\ \A i \in Wrappers :
       /\ pay.sent[i] # <<>> => CarriesToken(pay.sent[i][1].payload)
       /\ \A k \in 1..Len(inflight[i]) : CarriesToken(inflight[i][k])
  /\ NoInitToken => (selectors.paymentMethods = <<>> /\ calls["create"] = 0)

C17_TokenInEveryRequest ==
  /\ []TokenInEveryRequest
  /\ [][pc # "boot" => appState'.initData = appState.initData]_vars

\* A request was sent with the token of the page URL, the host having given none.
C17_Witness ==
  \E i \in Wrappers :
    /\ env.tgInitData = ""
    /\ pay.sent[i] # <<>>
    /\ pay.sent[i][1].payload.initData = "url-token"

(***************************************************************************)
(* C18.  When the account load fails, the payment-methods request is never *)
(* issued, the stored list of payment methods stays empty and the payment  *)
(* panel is never made visible; the panel is visible only after a          *)
(* payment-methods load that succeeded with at least one method.           *)
(***************************************************************************)
AccountLoadFailed == Logged("subscription:rejected") \/ Logged("catch")

C18_PaymentsNeedAccount ==
  /\ AccountLoadFailed =>
       /\ calls["methods"] = 0
       /\ ~Logged("methods:request")
       /\ appState.paymentMethods.items = <<>>
       /\ selectors.paymentMethods = <<>>
       /\ selectors.paymentsCard # Shown
  /\ selectors.paymentsCard = Shown =>
       /\ Logged("methods:resolved")
       /\ ~AccountLoadFailed
       /\ appState.paymentMethods.kind = "array"
       /\ Len(appState.paymentMethods.items) >= 1

\* The account request was answered and a renderer threw: bootstrap ended without payments.
C18_Witness ==
  /\ pc = "done"
  /\ Logged("subscription:resolved") /\ Logged("catch")
  /\ calls["methods"] = 0
  /\ selectors.paymentsCard = Markup

(***************************************************************************)
(* C19.  The payment workflows of different methods are independent: a     *)
(* step that starts, completes or fails a submission of one method leaves  *)
(* the disabled flag and the label of every other method's pay button as   *)
(* they were; two methods may have a request in flight at the same time.   *)
(***************************************************************************)
\* The step starts a submission of wrapper i (a request is added) or settles one (it is removed).
SubmissionStep(i) ==
  /\ i \in Wrappers
  /\ i \in DOMAIN inflight'
  /\ inflight'[i] # inflight[i]

C19_OtherButtonsUntouched ==
  [][\A i, j \in 1..MaxWrappers :
       (SubmissionStep(i) /\ j \in Wrappers /\ j # i) =>
         /\ j \in 1..Len(selectors'.paymentMethods)
         /\ selectors'.paymentMethods[j].payButton = selectors.paymentMethods[j].payButton
         /\ inflight'[j] = inflight[j]]_vars

\* Two methods have a request in flight at the same time.
C19_BothInFlight ==
  \E i, j \in Wrappers :
    /\ i # j
    /\ Pending(i) = 1 /\ Pending(j) = 1
    /\ Button(i).disabled /\ Button(j).disabled

\* One of two methods in flight has settled: its button is enabled, the other is still disabled.
C19_Witness ==
  \E i, j \in Wrappers :
    /\ i # j
    /\ Settled(i) /\ ~Button(i).disabled
    /\ Pending(j) = 1 /\ Button(j).disabled /\ Button(j).textContent = "Opening..."

====
